---------------------------- MODULE Spec2Model ----------------------------
(***************************************************************************)
(* Model of file_server.c: a master thread that reads command lines and    *)
(* spawns one worker thread per line, and the ticket (FIFO) locks the      *)
(* workers use to serialise access to files:                               *)
(*   queue_lock / ticket_lock / ticket_unlock   the FIFO lock              *)
(*   open_files / open_files_lock               the list of path-lock      *)
(*                                              nodes and its guard        *)
(*   enqueue / dequeue                          lock / unlock a path       *)
(*   worker_thread, read_file, write_file, empty_file, master_thread, main *)
(* Strings are sequences of one-character strings, so that strtok, strlen  *)
(* and the appends to files are computed as the code computes them.        *)
(***************************************************************************)
EXTENDS Integers, Sequences, FiniteSets, TLC

(***************************************************************************)
(* Bounds of the model.                                                    *)
(***************************************************************************)
\* number of command lines the master thread accepts (= worker threads)
MaxCmds == 2
\* number of threads of the lock harness (LockSpec)
NumThreads == 4
\* number of threads that call enqueue and dequeue in RegistrySpec
RegThreads == 3

(***************************************************************************)
(* Program constants.                                                      *)
(***************************************************************************)
REQUEST_INVALID == 0
REQUEST_READ == 1
REQUEST_WRITE == 2
REQUEST_EMPTY == 3
\* the longest free text worker_thread accepts
MaxTextLen == 50

NULL == <<"NULL">>
SP == <<" ">>
NL == <<"\n">>

READ_FILE == <<"r", "e", "a", "d", ".", "t", "x", "t">>
EMPTY_FILE == <<"e", "m", "p", "t", "y", ".", "t", "x", "t">>
COMMANDS_FILE == <<"c", "o", "m", "m", "a", "n", "d", "s", ".", "t", "x", "t">>

(***************************************************************************)
(* The command lines the master thread is fed.                             *)
(***************************************************************************)
S_read == <<"r", "e", "a", "d">>
S_write == <<"w", "r", "i", "t", "e">>
S_empty == <<"e", "m", "p", "t", "y">>
S_copy == <<"c", "o", "p", "y">>
S_foo == <<"f", "o", "o">>
S_bar == <<"b", "a", "r">>
S_hello == <<"h", "e", "l", "l", "o">>
S_world == <<"w", "o", "r", "l", "d">>

Rep(c, n) == [i \in 1..n |-> c]

WriteFooHello == S_write \o SP \o S_foo \o SP \o S_hello
WriteFooWorld == S_write \o SP \o S_foo \o SP \o S_world
WriteBarHello == S_write \o SP \o S_bar \o SP \o S_hello
ReadFoo == S_read \o SP \o S_foo
EmptyFoo == S_empty \o SP \o S_foo
\* requests on the server's own destination files
ReadEmptyTxt == S_read \o SP \o EMPTY_FILE
EmptyReadTxt == S_empty \o SP \o READ_FILE
\* requests whose source is read_file's destination
ReadReadTxt == S_read \o SP \o READ_FILE
EmptyEmptyTxt == S_empty \o SP \o EMPTY_FILE
\* lines that fail parsing
NoPathLine == S_write
BadCmdLine == S_copy \o SP \o S_foo
ReadTextLine == S_read \o SP \o S_foo \o SP \o S_hello
LongTextLine == S_write \o SP \o S_foo \o SP \o Rep("x", MaxTextLen + 1)

\* the lines that can occur together in one run of the server
Menus ==
    { { WriteFooHello, WriteFooWorld },
      { WriteFooHello, ReadFoo },
      { WriteFooHello, WriteBarHello },
      { WriteFooHello, EmptyFoo },
      { ReadEmptyTxt, EmptyReadTxt },
      { ReadReadTxt, EmptyEmptyTxt },
      { ReadFoo, NoPathLine, BadCmdLine },
      { WriteFooHello, ReadTextLine, LongTextLine } }

CmdLines == UNION Menus

\* the contents of stdin: at most MaxCmds lines of one menu, then end of file
Scripts == UNION { UNION { [1..k -> m] : k \in 0..MaxCmds } : m \in Menus }

(***************************************************************************)
(* String helpers of the C library, as worker_thread uses them.            *)
(***************************************************************************)
Min(S) == CHOOSE x \in S : \A y \in S : x <= y

\* first index >= i of s that holds no delimiter (Len(s)+1 when none)
SkipDelims(s, i) ==
    LET rest == { j \in i..Len(s) : s[j] # " " }
    IN  IF rest = {} THEN Len(s) + 1 ELSE Min(rest)

\* first index >= i of s that holds a delimiter (Len(s)+1 when none)
NextDelim(s, i) ==
    LET rest == { j \in i..Len(s) : s[j] = " " }
    IN  IF rest = {} THEN Len(s) + 1 ELSE Min(rest)

\* strtok(s, " ") resumed at index i: the token and where the next call resumes
strtok(s, i) ==
    LET b == SkipDelims(s, i)
        e == NextDelim(s, b)
    IN  IF b > Len(s)
        THEN [tok |-> NULL, resume |-> Len(s) + 1]
        ELSE [tok |-> SubSeq(s, b, e - 1), resume |-> e + 1]

determine_request(cmd) ==
    IF cmd = S_read THEN REQUEST_READ
    ELSE IF cmd = S_write THEN REQUEST_WRITE
    ELSE IF cmd = S_empty THEN REQUEST_EMPTY
    ELSE REQUEST_INVALID


\* the free text of a write request with no third argument: worker_thread
\* leaves text[51] uninitialised, so the bytes are whatever the stack holds
UninitText == { <<>>, <<"?">> }

(***************************************************************************)
(* worker_thread's parsing of a command line (lines 485-527): the outcomes *)
(* are records [ok, request_type, file_path, text].  own is the worker's   *)
(* copy, which strtok cuts; shared is what parcel->cmdline, the master's   *)
(* buffer, holds when lines 506-525 measure it and copy the free text.     *)
(***************************************************************************)
Rejected == [ok |-> FALSE, request_type |-> REQUEST_INVALID, file_path |-> NULL, text |-> <<>>]

\* parsing without the check of line 517
parse_any_length(own, shared) ==
    LET t1 == strtok(own, 1)
        cmd == t1.tok
        t2 == strtok(own, t1.resume)
        file_path == t2.tok
        request_type == determine_request(cmd)
        preceding_len == Len(cmd) + Len(file_path) + 2
    IN  IF file_path = NULL THEN { Rejected }
        ELSE IF request_type = REQUEST_INVALID THEN { Rejected }
        ELSE IF Len(shared) > preceding_len
             THEN IF request_type # REQUEST_WRITE THEN { Rejected }
                  ELSE { [ok |-> TRUE, request_type |-> request_type, file_path |-> file_path,
                          text |-> SubSeq(shared, preceding_len + 1, Len(shared))] }
        ELSE { [ok |-> TRUE, request_type |-> request_type, file_path |-> file_path, text |-> t]
               : t \in (IF request_type = REQUEST_WRITE THEN UninitText ELSE { <<>> }) }

parse_cmdline(own, shared) ==
    LET t1 == strtok(own, 1)
        cmd == t1.tok
        t2 == strtok(own, t1.resume)
        file_path == t2.tok
        request_type == determine_request(cmd)
        preceding_len == Len(cmd) + Len(file_path) + 2
        text_len == Len(shared) - preceding_len
    IN  IF file_path = NULL THEN { Rejected }
        ELSE IF request_type = REQUEST_INVALID THEN { Rejected }
        ELSE IF Len(shared) > preceding_len
             THEN IF request_type # REQUEST_WRITE THEN { Rejected }
                  ELSE IF text_len > MaxTextLen THEN { Rejected }
                  ELSE { [ok |-> TRUE, request_type |-> request_type, file_path |-> file_path,
                          text |-> SubSeq(shared, preceding_len + 1, Len(shared))] }
        ELSE { [ok |-> TRUE, request_type |-> request_type, file_path |-> file_path, text |-> t]
               : t \in (IF request_type = REQUEST_WRITE THEN UninitText ELSE { <<>> }) }

(***************************************************************************)
(* State.                                                                  *)
(***************************************************************************)
VARIABLES
    join_threads,   \* main: 1 with -j, else 0
    stdin,          \* the lines not read yet
    master_pc,      \* "fgets", "join" (in pthread_join), "exited" (main returned)
    cmdline,        \* master_thread's buffer cmdline[109]; every parcel->cmdline points to it
    nspawned,       \* number of worker threads created so far
    accepted,       \* history: the lines the master has read, in order
    locks,          \* queue_lock objects: id -> [curr, waiting]; id 0 is open_files_lock
    nodes,          \* file_t objects ever allocated: node i has lock i; [path, owner]
    open_files,     \* the list reachable from the head open_files, as node ids
    files,          \* the directory: path -> [exists, data]
    wk,             \* worker threads: their position and locals
    issued,         \* history, per file lock: the workers in the order they drew tickets
    granted,        \* history, per file lock: the workers in the order ticket_lock returned
    hist,           \* history, per worker: locks drawn on, acquired, unlocked; paths enqueued
    th              \* the threads of the lock harness (LockSpec): [pc, ticket, waited]

vars == << join_threads, stdin, master_pc, cmdline, nspawned, accepted, locks, nodes,
           open_files, files, wk, issued, granted, hist, th >>

Workers == 1..MaxCmds

\* every path a command line of CmdLines can name, and the server's own files
UserPaths == { r.file_path : r \in { x \in UNION { parse_cmdline(l, l) : l \in CmdLines } : x.ok } }
FilePaths == UserPaths \cup { READ_FILE, EMPTY_FILE, COMMANDS_FILE }

ticket_init == [curr |-> 0, waiting |-> 0]

NoFile == [exists |-> FALSE, data |-> <<>>]

IdleWorker ==
    [pc |-> "idle", ctx |-> "src", cmdline |-> <<>>, seen |-> <<>>, request_type |-> REQUEST_INVALID, file_path |-> NULL,
     text |-> <<>>, ticket |-> 0, lock |-> 0, file |-> 0, return_value |-> 0]

NoHist ==
    [drawn |-> <<>>, acquired |-> <<>>, unlocked |-> <<>>, enqueued |-> <<>>,
     src_lock |-> 0, dst_lock |-> 0]

\* main (lines 640-680) up to the creation of the master thread
Init ==
    /\ join_threads \in {0, 1}
    /\ stdin \in Scripts
    /\ master_pc = "fgets"
    /\ cmdline = <<>>
    /\ nspawned = 0
    /\ accepted = <<>>
    /\ locks = (0 :> ticket_init)
    /\ nodes = <<>>
    /\ open_files = <<>>
    /\ files = [p \in FilePaths |-> NoFile]
    /\ wk = [w \in Workers |-> IdleWorker]
    /\ issued = <<>>
    /\ granted = <<>>
    /\ hist = [w \in Workers |-> NoHist]
    /\ th = <<>>

(***************************************************************************)
(* The ticket lock (lines 170-209).  pthread's mutex makes each of         *)
(* ticket_lock's and ticket_unlock's critical sections one step.           *)
(***************************************************************************)
\* ticket = lock->waiting++
\* a draw that does not advance waiting
ticket_take_same(lks, l) == lks

ticket_take(lks, l) == [lks EXCEPT ![l].waiting = @ + 1]

\* the loop condition of ticket_lock: while (ticket != lock->curr)
\* a loop that never waits
must_wait_never(ticket, lk) == FALSE

must_wait(ticket, lk) == ticket # lk.curr

\* lock->curr++ (and the broadcast, which wakes every thread in ticket_lock_wake)
\* an unlock that serves the ticket after the next one
ticket_unlock_skip(lks, l) == [lks EXCEPT ![l].curr = @ + 2]

ticket_unlock(lks, l) == [lks EXCEPT ![l].curr = @ + 1]

(***************************************************************************)
(* The list of open files (lines 224-242, 262-272).                        *)
(***************************************************************************)
\* file->path points into the cmdline copy of the worker that created the
\* node; that worker frees the copy when it finishes (line 570)
Dangling(n) == nodes[n].owner # 0 /\ wk[nodes[n].owner].pc = "done"

\* strcmp(file->path, file_path) == 0 can come out TRUE / FALSE: a read of
\* freed memory may find anything
CanMatch(n, path) == Dangling(n) \/ nodes[n].path = path
CanMiss(n, path) == Dangling(n) \/ nodes[n].path # path

\* a walk that never finds the path
lookup_never(path) == {0}

\* a walk that takes the head of the list for every path
lookup_head(path) == IF open_files = <<>> THEN {0} ELSE {1}

\* the walk of the list: the position of the first matching node, 0 for none
lookup(path) ==
    { i \in 1..Len(open_files) :
        /\ CanMatch(open_files[i], path)
        /\ \A j \in 1..(i - 1) : CanMiss(open_files[j], path) }
    \cup (IF \A j \in 1..Len(open_files) : CanMiss(open_files[j], path) THEN {0} ELSE {})

\* file->next = NULL; open_files = file
list_insert(list, n) == << n >>

(***************************************************************************)
(* The files.                                                              *)
(***************************************************************************)
S_dne == <<":", " ", "F", "I", "L", "E", " ", "D", "N", "E">>
S_already == <<":", " ", "F", "I", "L", "E", " ", "A", "L", "R", "E", "A", "D", "Y", " ", "E", "M", "P", "T", "Y">>
\* get_time(): the timestamp is not modelled, one token stands for it
TimeStamp == << "T" >>

\* fopen(path, "a"); fprintf(file, "%s\n", text); fclose(file)
write_file(fs, path, text, for_user) ==
    [fs EXCEPT ![path] = [exists |-> TRUE, data |-> @.data \o text \o NL]]

\* a read that appends the command line and none of the source's bytes
read_file_append_header(fs, src_path, dest_path, line, before_empty) ==
    [fs EXCEPT ![dest_path] = [exists |-> TRUE, data |-> @.data \o line \o <<":", " ">> \o NL]]

\* what read_file appends to dest_path once it holds the destination's lock
read_file_append(fs, src_path, dest_path, line, before_empty) ==
    IF ~fs[src_path].exists
    THEN [fs EXCEPT ![dest_path] =
            [exists |-> TRUE,
             data |-> @.data \o line \o (IF before_empty = 0 THEN S_dne ELSE S_already) \o NL]]
    ELSE [fs EXCEPT ![dest_path] =
            [exists |-> TRUE, data |-> @.data \o line \o <<":", " ">> \o fs[src_path].data \o NL]]

\* fopen(path, "w") of an existing file
empty_file(fs, path) ==
    IF fs[path].exists THEN [fs EXCEPT ![path] = [exists |-> TRUE, data |-> <<>>]] ELSE fs

(***************************************************************************)
(* master_thread (lines 583-629) and the end of main (lines 683-703).      *)
(***************************************************************************)
\* a thread that counts as ended from the start
joined_at_once(w) == TRUE

Finished(w) == wk[w].pc \in {"done", "rejected"}

\* fgets reads a line; the line is logged to commands.txt and a worker is created
master_fgets ==
    /\ master_pc = "fgets"
    /\ stdin # <<>>
    /\ LET line == Head(stdin)
       IN
        /\ cmdline' = line
        /\ stdin' = Tail(stdin)
        /\ accepted' = Append(accepted, line)
        /\ files' = write_file(files, COMMANDS_FILE, <<"[">> \o TimeStamp \o <<"]", " ">> \o line, 0)
    /\ nspawned' = nspawned + 1
    /\ wk' = [wk EXCEPT ![nspawned + 1].pc = "strcpy"]
    /\ master_pc' = IF join_threads = 1 THEN "join" ELSE "fgets"
    /\ UNCHANGED << th, join_threads, locks, nodes, open_files, issued, granted, hist >>

\* pthread_join(thread, NULL) in join mode
master_join ==
    /\ master_pc = "join"
    /\ Finished(nspawned)
    /\ master_pc' = "fgets"
    /\ UNCHANGED << th, join_threads, stdin, cmdline, nspawned, accepted, locks, nodes, open_files,
                    files, wk, issued, granted, hist >>

\* fgets returns NULL and master_thread ends (lines 596-599); main, which
\* waited for it, destroys the locks and returns (lines 683-703): the process
\* and all its threads end
master_eof ==
    /\ master_pc = "fgets"
    /\ stdin = <<>>
    /\ master_pc' = "exited"
    /\ UNCHANGED << th, join_threads, stdin, cmdline, nspawned, accepted, locks, nodes, open_files,
                    files, wk, issued, granted, hist >>

(***************************************************************************)
(* worker_thread (lines 472-572), with enqueue, read_file and dequeue      *)
(* inlined at the places that call them.  wk[w].ctx tells whose call of    *)
(* enqueue / dequeue runs: "src" for worker_thread's (on file_path), "dst" *)
(* for read_file's (on dest_path).  The locals of ticket_lock and enqueue  *)
(* (ticket, lock, file) are 0 outside the call they belong to.             *)
(*                                                                         *)
(* What a thread does between the return of ticket_lock(open_files_lock)  *)
(* and its ticket_unlock(open_files_lock) touches only what that lock      *)
(* protects (the list and the counters of the file locks), so it is one    *)
(* step, cut only where enqueue waits for a file lock; the free and the    *)
(* end of the thread are one step with the last dequeue before them.       *)
(***************************************************************************)
Running(w) == master_pc # "exited" /\ wk[w].pc \notin {"idle", "done", "rejected"}

\* read_file's dest_path: READ_FILE for a read request, EMPTY_FILE for an empty request
dest_path(w) == IF wk[w].request_type = REQUEST_READ THEN READ_FILE ELSE EMPTY_FILE

\* the path the running call of enqueue / dequeue was given
Target(w) == IF wk[w].ctx = "src" THEN wk[w].file_path ELSE dest_path(w)

\* lines 478-480: cmdline = malloc(...); strcpy(cmdline, parcel->cmdline)
worker_strcpy(w) ==
    /\ Running(w)
    /\ wk[w].pc = "strcpy"
    /\ wk' = [wk EXCEPT ![w].pc = "parse", ![w].cmdline = cmdline]
    /\ UNCHANGED << th, join_threads, stdin, master_pc, cmdline, nspawned, accepted, locks, nodes,
                    open_files, files, issued, granted, hist >>

\* lines 485-527: parse the copy, measuring and copying the free text in
\* parcel->cmdline; wk[w].seen records what parcel->cmdline held
worker_parse(w) ==
    /\ Running(w)
    /\ wk[w].pc = "parse"
    /\ \E r \in parse_cmdline(wk[w].cmdline, cmdline) :
        wk' = [wk EXCEPT ![w] =
                 IF r.ok
                 THEN [@ EXCEPT !.pc = "enq_lock", !.ctx = "src", !.seen = cmdline,
                                !.request_type = r.request_type,
                                !.file_path = r.file_path, !.text = r.text]
                 ELSE [@ EXCEPT !.pc = "rejected", !.seen = cmdline, !.return_value = -1]]
    /\ UNCHANGED << th, join_threads, stdin, master_pc, cmdline, nspawned, accepted, locks, nodes,
                    open_files, files, issued, granted, hist >>

\* the request's handler, entered when enqueue(file_path) returns (lines
\* 545-559): read_file, for a read or an empty request, returns -1 when source
\* and destination are the same path (lines 343-347) and calls
\* enqueue(dest_path) otherwise (line 354)
handler_entry(w) ==
    IF wk[w].request_type = REQUEST_WRITE
    THEN [pc |-> "write_file", ctx |-> "src", return_value |-> wk[w].return_value]
    ELSE IF wk[w].file_path = dest_path(w)
         THEN [pc |-> "deq_lock", ctx |-> "src", return_value |-> -1]
         ELSE [pc |-> "enq_lock", ctx |-> "dst", return_value |-> wk[w].return_value]

\* line 246: ticket_unlock(open_files_lock), and enqueue returns: to
\* worker_thread (line 531) or to read_file (line 355).
\* l: the lock of the node; lks, h: the locks and the history so far
enqueue_unlock(w, l, lks, h) ==
    /\ locks' = ticket_unlock(lks, 0)
    /\ wk' = IF wk[w].ctx = "src"
             THEN [wk EXCEPT ![w].pc = handler_entry(w).pc, ![w].ctx = handler_entry(w).ctx,
                             ![w].return_value = handler_entry(w).return_value,
                             ![w].ticket = 0, ![w].lock = 0, ![w].file = 0]
             ELSE [wk EXCEPT ![w].pc = "rf_io", ![w].ticket = 0, ![w].lock = 0, ![w].file = 0]
    /\ hist' = [h EXCEPT ![w].unlocked = Append(@, 0),
                         ![w].src_lock = IF wk[w].ctx = "src" THEN l ELSE @,
                         ![w].dst_lock = IF wk[w].ctx = "dst" THEN l ELSE @]

\* lines 224-246, run by the holder of open_files_lock: walk the list, create
\* a node when the path is not found, and ticket_lock(file->lock); when that
\* ticket is the one served, unlock open_files_lock and return, else wait
\* with open_files_lock held.
\* lks, h: the locks and the history as the step found them
enqueue_find(w, lks, h) ==
    \E i \in lookup(Target(w)) :
        LET found == i # 0
            l == IF found THEN open_files[i] ELSE Len(nodes) + 1
            lks1 == IF found THEN lks ELSE (l :> ticket_init) @@ lks
            t == lks1[l].waiting
            wait == must_wait(t, lks1[l])
            h1 == [h EXCEPT ![w].drawn = Append(@, l)]
        IN  /\ nodes' = IF found THEN nodes
                        ELSE Append(nodes, [path |-> Target(w),
                                            owner |-> IF wk[w].ctx = "src" THEN w ELSE 0])
            /\ open_files' = IF found THEN open_files ELSE list_insert(open_files, l)
            /\ issued' = IF found THEN [issued EXCEPT ![l] = Append(@, w)]
                         ELSE Append(issued, << w >>)
            /\ granted' = LET g == IF found THEN granted ELSE Append(granted, <<>>)
                          IN  IF wait THEN g ELSE [g EXCEPT ![l] = Append(@, w)]
            /\ IF wait
               THEN /\ locks' = ticket_take(lks1, l)
                    /\ wk' = [wk EXCEPT ![w].file = l, ![w].ticket = t, ![w].lock = l,
                                        ![w].pc = "enq_file_wait"]
                    /\ hist' = h1
               ELSE enqueue_unlock(w, l, ticket_take(lks1, l),
                                   [h1 EXCEPT ![w].acquired = Append(@, l)])
            /\ UNCHANGED << th, join_threads, stdin, master_pc, cmdline, nspawned, accepted, files >>

\* where dequeue returns to: to read_file (line 405), which returns to
\* worker_thread (lines 547, 556-558), or to worker_thread (line 567), which
\* frees its cmdline and ends (lines 570-571)
dequeue_return(w) ==
    IF wk[w].ctx = "src"
    THEN [pc |-> "done", ctx |-> "src"]
    ELSE IF wk[w].request_type = REQUEST_EMPTY /\ wk[w].return_value = 0
         THEN [pc |-> "empty_file", ctx |-> "src"]
         ELSE [pc |-> "deq_lock", ctx |-> "src"]

\* lines 262-273, run by the holder of open_files_lock: walk the list,
\* ticket_unlock(file->lock) of the node found, ticket_unlock(open_files_lock)
dequeue_find(w, lks, h) ==
    /\ \E i \in lookup(Target(w)) :
        /\ locks' = ticket_unlock(IF i # 0 THEN ticket_unlock(lks, open_files[i]) ELSE lks, 0)
        /\ hist' = [h EXCEPT ![w].unlocked =
                        (IF i # 0 THEN Append(@, open_files[i]) ELSE @) \o << 0 >>]
    /\ wk' = [wk EXCEPT ![w].pc = dequeue_return(w).pc, ![w].ctx = dequeue_return(w).ctx,
                        ![w].ticket = 0, ![w].lock = 0]
    /\ UNCHANGED << th, join_threads, stdin, master_pc, cmdline, nspawned, accepted, nodes,
                    open_files, files, issued, granted >>

\* what the holder of open_files_lock does: enqueue's part or dequeue's
guarded_find(w, call, lks, h) ==
    IF call = "enq" THEN enqueue_find(w, lks, h) ELSE dequeue_find(w, lks, h)

\* ticket_lock(open_files_lock) of enqueue (line 222) and of dequeue (line 260):
\* draw a ticket; go on when it is the one served, wait otherwise
guard_ticket_lock(w) ==
    /\ Running(w)
    /\ wk[w].pc \in {"enq_lock", "deq_lock"}
    /\ LET t == locks[0].waiting
           call == IF wk[w].pc = "enq_lock" THEN "enq" ELSE "deq"
           lks == ticket_take(locks, 0)
           h == [hist EXCEPT ![w].drawn = Append(@, 0),
                             ![w].enqueued = IF call = "enq" THEN Append(@, Target(w)) ELSE @]
       IN  IF must_wait(t, locks[0])
           THEN /\ locks' = lks
                /\ hist' = h
                /\ wk' = [wk EXCEPT ![w].ticket = t, ![w].lock = 0,
                                    ![w].pc = IF call = "enq" THEN "enq_lock_wait" ELSE "deq_lock_wait"]
                /\ UNCHANGED << th, join_threads, stdin, master_pc, cmdline, nspawned, accepted,
                                nodes, open_files, files, issued, granted >>
           ELSE guarded_find(w, call, lks, h)

\* pthread_cond_wait returns (a broadcast, or a spurious wakeup) and the loop
\* of ticket_lock tests its condition again (lines 189-193)
ticket_lock_wake(w) ==
    /\ Running(w)
    /\ wk[w].pc \in {"enq_lock_wait", "enq_file_wait", "deq_lock_wait"}
    /\ IF must_wait(wk[w].ticket, locks[wk[w].lock])
       THEN UNCHANGED vars
       ELSE IF wk[w].pc = "enq_file_wait"
            THEN /\ enqueue_unlock(w, wk[w].lock, locks,
                                   [hist EXCEPT ![w].acquired = Append(@, wk[w].lock)])
                 /\ granted' = [granted EXCEPT ![wk[w].lock] = Append(@, w)]
                 /\ UNCHANGED << th, join_threads, stdin, master_pc, cmdline, nspawned, accepted,
                                 nodes, open_files, files, issued >>
            ELSE guarded_find(w, IF wk[w].pc = "enq_lock_wait" THEN "enq" ELSE "deq", locks, hist)

\* lines 549-551: a write request calls write_file(file_path, text, 1)
worker_write(w) ==
    /\ Running(w)
    /\ wk[w].pc = "write_file"
    /\ files' = write_file(files, wk[w].file_path, wk[w].text, 1)
    /\ wk' = [wk EXCEPT ![w].return_value = 0, ![w].pc = "deq_lock", ![w].ctx = "src"]
    /\ UNCHANGED << th, join_threads, stdin, master_pc, cmdline, nspawned, accepted, locks, nodes,
                    open_files, issued, granted, hist >>

\* lines 357-399: append to the destination; parcel->cmdline is the master's buffer
read_file_io(w) ==
    /\ Running(w)
    /\ wk[w].pc = "rf_io"
    /\ files' = read_file_append(files, wk[w].file_path, dest_path(w), cmdline,
                                 IF wk[w].request_type = REQUEST_EMPTY THEN 1 ELSE 0)
    /\ wk' = [wk EXCEPT ![w].return_value = IF files[wk[w].file_path].exists THEN 0 ELSE -1,
                        ![w].pc = "deq_lock", ![w].ctx = "dst"]
    /\ UNCHANGED << th, join_threads, stdin, master_pc, cmdline, nspawned, accepted, locks, nodes,
                    open_files, issued, granted, hist >>

\* line 558: empty_file(file_path, parcel->cmdline)
worker_empty(w) ==
    /\ Running(w)
    /\ wk[w].pc = "empty_file"
    /\ files' = empty_file(files, wk[w].file_path)
    /\ wk' = [wk EXCEPT ![w].return_value = 0, ![w].pc = "deq_lock", ![w].ctx = "src"]
    /\ UNCHANGED << th, join_threads, stdin, master_pc, cmdline, nspawned, accepted, locks, nodes,
                    open_files, issued, granted, hist >>

WorkerStep(w) ==
    \/ worker_strcpy(w)
    \/ worker_parse(w)
    \/ guard_ticket_lock(w)
    \/ ticket_lock_wake(w)
    \/ worker_write(w)
    \/ read_file_io(w)
    \/ worker_empty(w)

Next ==
    \/ master_fgets
    \/ master_join
    \/ master_eof
    \/ \E w \in Workers : WorkerStep(w)

Spec == Init /\ [][Next]_vars

(***************************************************************************)
(* The ticket lock alone: NumThreads threads that each call ticket_lock    *)
(* once on one queue_lock and ticket_unlock once after it.                 *)
(***************************************************************************)
Threads == 1..NumThreads

\* the queue_lock the threads share
TheLock == 1

LockInit ==
    /\ join_threads = 0
    /\ stdin = <<>>
    /\ master_pc = "fgets"
    /\ cmdline = <<>>
    /\ nspawned = 0
    /\ accepted = <<>>
    /\ locks = (0 :> ticket_init) @@ (TheLock :> ticket_init)
    /\ nodes = <<>>
    /\ open_files = <<>>
    /\ files = [p \in FilePaths |-> NoFile]
    /\ wk = [w \in Workers |-> IdleWorker]
    /\ issued = << <<>> >>
    /\ granted = << <<>> >>
    /\ hist = [w \in Workers |-> NoHist]
    /\ th = [t \in Threads |-> [pc |-> "start", ticket |-> 0, waited |-> FALSE, asleep |-> FALSE]]

\* pthread_cond_signal in the place of the broadcast: one of the threads
\* blocked on the condition variable is woken, here the one created first
cond_signal(thr) ==
    LET blocked == { t \in DOMAIN thr : thr[t].pc = "wait" /\ thr[t].asleep }
    IN  [t \in DOMAIN thr |->
            IF blocked # {} /\ t = Min(blocked) THEN [thr[t] EXCEPT !.asleep = FALSE] ELSE thr[t]]

\* line 207, pthread_cond_broadcast(&lock->queue): every thread blocked in
\* pthread_cond_wait on the lock is woken
cond_broadcast(thr) ==
    [t \in DOMAIN thr |-> IF thr[t].pc = "wait" THEN [thr[t] EXCEPT !.asleep = FALSE] ELSE thr[t]]

\* lines 187-193 up to the first test of the loop; a thread that has to wait
\* blocks in pthread_cond_wait, which releases the mutex as it blocks
thread_ticket_lock(t) ==
    /\ th[t].pc = "start"
    /\ LET ticket == locks[TheLock].waiting
           wait == must_wait(ticket, locks[TheLock])
       IN  /\ locks' = ticket_take(locks, TheLock)
           /\ issued' = [issued EXCEPT ![TheLock] = Append(@, t)]
           /\ granted' = IF wait THEN granted ELSE [granted EXCEPT ![TheLock] = Append(@, t)]
           /\ th' = [th EXCEPT ![t] = [pc |-> IF wait THEN "wait" ELSE "held",
                                       ticket |-> ticket, waited |-> wait, asleep |-> wait]]
    /\ UNCHANGED << join_threads, stdin, master_pc, cmdline, nspawned, accepted, nodes,
                    open_files, files, wk, hist >>

\* pthread_cond_wait returns without a broadcast (a spurious wakeup)
thread_spurious(t) ==
    /\ th[t].pc = "wait"
    /\ th[t].asleep
    /\ th' = [th EXCEPT ![t].asleep = FALSE]
    /\ UNCHANGED << join_threads, stdin, master_pc, cmdline, nspawned, accepted, locks,
                    nodes, open_files, files, wk, issued, granted, hist >>

\* lines 189-193: pthread_cond_wait has returned, the thread has the mutex
\* again and the loop tests its condition: wait again, or return
thread_wake(t) ==
    /\ th[t].pc = "wait"
    /\ ~th[t].asleep
    /\ IF must_wait(th[t].ticket, locks[TheLock])
       THEN /\ th' = [th EXCEPT ![t].asleep = TRUE]
            /\ UNCHANGED granted
       ELSE /\ th' = [th EXCEPT ![t].pc = "held"]
            /\ granted' = [granted EXCEPT ![TheLock] = Append(@, t)]
    /\ UNCHANGED << join_threads, stdin, master_pc, cmdline, nspawned, accepted, locks,
                    nodes, open_files, files, wk, issued, hist >>

\* lines 203-209
thread_ticket_unlock(t) ==
    /\ th[t].pc = "held"
    /\ locks' = ticket_unlock(locks, TheLock)
    /\ th' = [cond_broadcast(th) EXCEPT ![t].pc = "done"]
    /\ UNCHANGED << join_threads, stdin, master_pc, cmdline, nspawned, accepted, nodes,
                    open_files, files, wk, issued, granted, hist >>

LockNext ==
    \E t \in Threads :
        \/ thread_ticket_lock(t)
        \/ thread_spurious(t)
        \/ thread_wake(t)
        \/ thread_ticket_unlock(t)

LockSpec == LockInit /\ [][LockNext]_vars

\* a thread that pthread_cond_wait has woken gets the mutex and runs
LockFairSpec == LockSpec /\ \A t \in Threads : WF_vars(thread_wake(t))

(***************************************************************************)
(* enqueue and dequeue step by step (lines 216-274): RegThreads threads,   *)
(* each calling enqueue(path) and then dequeue(path) on a path of its own  *)
(* choice, every statement between ticket_lock(open_files_lock) and        *)
(* ticket_unlock(open_files_lock) a step of its own.  The callers keep     *)
(* their path strings, so no node's path is freed.                         *)
(***************************************************************************)
RegistryPaths == { S_foo, S_bar }

RegistryThreads == 1..RegThreads

RegistryInit ==
    /\ join_threads = 0
    /\ stdin = <<>>
    /\ master_pc = "fgets"
    /\ cmdline = <<>>
    /\ nspawned = 0
    /\ accepted = <<>>
    /\ locks = (0 :> ticket_init)
    /\ nodes = <<>>
    /\ open_files = <<>>
    /\ files = [p \in FilePaths |-> NoFile]
    /\ wk = [w \in Workers |-> IdleWorker]
    /\ issued = <<>>
    /\ granted = <<>>
    /\ hist = [w \in Workers |-> NoHist]
    /\ th \in [RegistryThreads -> { [pc |-> "enqueue", path |-> p, guard_ticket |-> 0, ticket |-> 0,
                             lock |-> 0, file |-> 0] : p \in RegistryPaths }]

\* lines 222 and 260: ticket_lock(open_files_lock) up to the first test of its loop
reg_guard_lock(t) ==
    /\ th[t].pc \in {"enqueue", "dequeue"}
    /\ LET ticket == locks[0].waiting
           next == IF must_wait(ticket, locks[0])
                   THEN (IF th[t].pc = "enqueue" THEN "enq_guard_wait" ELSE "deq_guard_wait")
                   ELSE (IF th[t].pc = "enqueue" THEN "enq_walk" ELSE "deq_walk")
       IN  /\ locks' = ticket_take(locks, 0)
           /\ th' = [th EXCEPT ![t].pc = next, ![t].guard_ticket = ticket,
                               ![t].ticket = ticket, ![t].lock = 0]
    /\ UNCHANGED << join_threads, stdin, master_pc, cmdline, nspawned, accepted, nodes,
                    open_files, files, wk, issued, granted, hist >>

\* lines 189-193: pthread_cond_wait returns and the loop tests again
reg_wake(t) ==
    /\ th[t].pc \in {"enq_guard_wait", "deq_guard_wait", "enq_file_wait"}
    /\ IF must_wait(th[t].ticket, locks[th[t].lock])
       THEN UNCHANGED vars
       ELSE /\ th' = [th EXCEPT ![t].pc = CASE th[t].pc = "enq_guard_wait" -> "enq_walk"
                                            [] th[t].pc = "deq_guard_wait" -> "deq_walk"
                                            [] OTHER -> "enq_unlock"]
            /\ UNCHANGED << join_threads, stdin, master_pc, cmdline, nspawned, accepted, locks,
                            nodes, open_files, files, wk, issued, granted, hist >>

\* lines 224-242: walk the list; create and link a node when none matches
reg_enqueue_walk(t) ==
    /\ th[t].pc = "enq_walk"
    /\ \E i \in lookup(th[t].path) :
        LET found == i # 0
            l == IF found THEN open_files[i] ELSE Len(nodes) + 1
        IN  /\ nodes' = IF found THEN nodes ELSE Append(nodes, [path |-> th[t].path, owner |-> 0])
            /\ open_files' = IF found THEN open_files ELSE list_insert(open_files, l)
            /\ locks' = IF found THEN locks ELSE (l :> ticket_init) @@ locks
            /\ th' = [th EXCEPT ![t].pc = "enq_file_lock", ![t].file = l]
    /\ UNCHANGED << join_threads, stdin, master_pc, cmdline, nspawned, accepted, files, wk,
                    issued, granted, hist >>

\* line 245: ticket_lock(file->lock) up to the first test of its loop
reg_file_lock(t) ==
    /\ th[t].pc = "enq_file_lock"
    /\ LET l == th[t].file
           ticket == locks[l].waiting
       IN  /\ locks' = ticket_take(locks, l)
           /\ th' = [th EXCEPT ![t].ticket = ticket, ![t].lock = l,
                               ![t].pc = IF must_wait(ticket, locks[l])
                                         THEN "enq_file_wait" ELSE "enq_unlock"]
    /\ UNCHANGED << join_threads, stdin, master_pc, cmdline, nspawned, accepted, nodes,
                    open_files, files, wk, issued, granted, hist >>

\* lines 246 and 273: ticket_unlock(open_files_lock); the caller of enqueue
\* goes on to call dequeue
reg_guard_unlock(t) ==
    /\ th[t].pc \in {"enq_unlock", "deq_unlock"}
    /\ locks' = ticket_unlock(locks, 0)
    /\ th' = [th EXCEPT ![t].pc = IF th[t].pc = "enq_unlock" THEN "dequeue" ELSE "done"]
    /\ UNCHANGED << join_threads, stdin, master_pc, cmdline, nspawned, accepted, nodes,
                    open_files, files, wk, issued, granted, hist >>

\* lines 262-272: walk the list and ticket_unlock(file->lock) of the node found
reg_dequeue_walk(t) ==
    /\ th[t].pc = "deq_walk"
    /\ \E i \in lookup(th[t].path) :
        locks' = IF i # 0 THEN ticket_unlock(locks, open_files[i]) ELSE locks
    /\ th' = [th EXCEPT ![t].pc = "deq_unlock"]
    /\ UNCHANGED << join_threads, stdin, master_pc, cmdline, nspawned, accepted, nodes,
                    open_files, files, wk, issued, granted, hist >>

RegistryNext ==
    \E t \in RegistryThreads :
        \/ reg_guard_lock(t)
        \/ reg_wake(t)
        \/ reg_enqueue_walk(t)
        \/ reg_file_lock(t)
        \/ reg_guard_unlock(t)
        \/ reg_dequeue_walk(t)

RegistrySpec == RegistryInit /\ [][RegistryNext]_vars

(***************************************************************************)
(* Vocabulary of the properties.                                           *)
(***************************************************************************)
Detach == join_threads = 0

Spawned == 1..nspawned

\* the worker is inside its request's handler: enqueue(file_path) has
\* returned and the handler (write_file, read_file, empty_file) has not
InHandler(w) ==
    \/ wk[w].pc \in {"write_file", "empty_file"}
    \/ wk[w].ctx = "dst"

\* the handler has returned: the worker is in dequeue(file_path) or past it
HandlerDone(w) ==
    \/ wk[w].pc = "done"
    \/ wk[w].ctx = "src" /\ wk[w].pc \in {"deq_lock", "deq_lock_wait"}

\* the worker is in pthread_cond_wait and its ticket is not the one served
Blocked(w) ==
    /\ wk[w].pc \in {"enq_lock_wait", "enq_file_wait", "deq_lock_wait"}
    /\ must_wait(wk[w].ticket, locks[wk[w].lock])

\* the second token of a line, as strtok finds it
PathOf(line) == strtok(line, strtok(line, 1).resume).tok
CmdOf(line) == strtok(line, 1).tok

\* the number of times x occurs in the sequence q
Count(q, x) == Cardinality({ i \in 1..Len(q) : q[i] = x })

\* the elements of the sequence q
Range(q) == { q[i] : i \in 1..Len(q) }

\* thread w holds lock l: it drew the ticket that l serves now, and ticket_lock returned
Holds(w, l) ==
    /\ l \in 1..Len(issued)
    /\ \E i \in 1..Len(granted[l]) : granted[l][i] = w /\ issued[l][i] = w /\ locks[l].curr = i - 1

(***************************************************************************)
(* C1.  In detach mode, two workers whose commands name the same path are  *)
(* never both inside their handlers (between the return of enqueue and the *)
(* start of dequeue) at the same time.                                     *)
(***************************************************************************)
C1_HandlersExclusive ==
    Detach =>
        \A w1, w2 \in Workers :
            (w1 # w2 /\ InHandler(w1) /\ InHandler(w2)) => wk[w1].file_path # wk[w2].file_path

(***************************************************************************)
(* C2.  On one queue_lock used by threads that each call ticket_lock once  *)
(* and ticket_unlock once after it, the calls of ticket_lock return in the *)
(* order in which the tickets were drawn.                                  *)
(***************************************************************************)
C2_ReturnOrderIsTicketOrder ==
    /\ Len(granted[TheLock]) <= Len(issued[TheLock])
    /\ \A i \in 1..Len(granted[TheLock]) : granted[TheLock][i] = issued[TheLock][i]

\* three threads returned in the order they drew, two of them after waiting
\* while a fourth thread still waits
C2_Witness ==
    /\ Len(granted[TheLock]) >= 3
    /\ \E t \in Threads : th[t].pc = "held" /\ th[t].waited /\ th[t].ticket >= 2
    /\ \E t \in Threads : th[t].pc = "wait"

(***************************************************************************)
(* C3.  In detach mode no state is reachable in which the workers wait on  *)
(* each other forever: some worker is unfinished and every unfinished      *)
(* worker is blocked in ticket_lock on a ticket that is not served.        *)
(***************************************************************************)
Deadlocked ==
    /\ master_pc # "exited"
    /\ \E w \in Spawned : ~Finished(w)
    /\ \A w \in Spawned : ~Finished(w) => Blocked(w)

C3_NoWorkerWaitsForever == Detach => ~Deadlocked

(***************************************************************************)
(* C4.  In detach mode, of two accepted commands that name the same path   *)
(* the later one's handler starts only after the earlier one's handler has *)
(* returned.                                                               *)
(***************************************************************************)
ValidLine(line) == \A r \in parse_cmdline(line, line) : r.ok

C4_ArrivalOrder ==
    Detach =>
        \A w1, w2 \in Spawned :
            ( /\ w1 < w2
              /\ ValidLine(accepted[w1]) /\ ValidLine(accepted[w2])
              /\ PathOf(accepted[w1]) = PathOf(accepted[w2])
              /\ (InHandler(w2) \/ HandlerDone(w2)) )
            => HandlerDone(w1)

(***************************************************************************)
(* C5.  When "write foo hello" and "write foo world" are the commands of a *)
(* detach-mode run, then once no worker can take a step any more, foo      *)
(* holds both lines, intact, in the order in which the two workers were    *)
(* granted the lock of foo.                                                *)
(***************************************************************************)
Quiescent ==
    /\ master_pc # "exited"
    /\ \A w \in Spawned : Finished(w) \/ Blocked(w)

\* worker a was granted its lock of the path before worker b was
GrantedBefore(a, b) ==
    LET la == hist[a].src_lock
        lb == hist[b].src_lock
    IN  IF la = lb
        THEN \E i, j \in 1..Len(granted[la]) : i < j /\ granted[la][i] = a /\ granted[la][j] = b
        ELSE la < lb

C5_BothWritesLand ==
    ( /\ Detach
      /\ accepted = << WriteFooHello, WriteFooWorld >>
      /\ stdin = <<>>
      /\ Quiescent )
    => \E a, b \in Spawned :
          /\ a # b
          /\ {wk[a].text, wk[b].text} = {S_hello, S_world}
          /\ files[S_foo].data = wk[a].text \o NL \o wk[b].text \o NL
          /\ GrantedBefore(a, b)

(***************************************************************************)
(* C6.  While enqueue has been called with one path only and no caller has *)
(* finished (the calls are concurrent), one node and one lock exist for    *)
(* that path, and every ticket drawn on a file lock was drawn on that one. *)
(***************************************************************************)
OnlyEnqueued(p) == \A w \in Workers : \A i \in 1..Len(hist[w].enqueued) : hist[w].enqueued[i] = p

NoneFreed == \A w \in Workers : wk[w].pc # "done"

C6_OneEntryForConcurrentFirstAccess ==
    \A p \in UserPaths :
        (OnlyEnqueued(p) /\ NoneFreed /\ (\E w \in Workers : hist[w].enqueued # <<>>)) =>
            /\ Len(nodes) <= 1
            /\ \A n \in 1..Len(nodes) : nodes[n].path = p /\ open_files = << n >>
            /\ \A w \in Workers : Range(hist[w].drawn) \subseteq {0, 1}
            /\ (\E w \in Workers : Range(hist[w].drawn) # {0} /\ hist[w].drawn # <<>>) => Len(nodes) = 1

\* two workers drew their tickets on the one lock of the path they both enqueued
C6_Witness ==
    /\ OnlyEnqueued(S_foo)
    /\ NoneFreed
    /\ Len(nodes) = 1
    /\ \E w1, w2 \in Workers : w1 # w2 /\ 1 \in Range(hist[w1].drawn) /\ 1 \in Range(hist[w2].drawn)

(***************************************************************************)
(* C7.  An entry, once created, stays in open_files, and at most one entry *)
(* (one lock) is ever created for a path.                                  *)
(***************************************************************************)
C7_EntryNeverDropped ==
    /\ \A n \in 1..Len(nodes) : n \in Range(open_files)
    /\ \A n1, n2 \in 1..Len(nodes) : nodes[n1].path = nodes[n2].path => n1 = n2

(***************************************************************************)
(* C8.  A worker that returned from enqueue(file_path) and has finished    *)
(* has called ticket_unlock exactly once on the lock it acquired there,    *)
(* whatever its handler returned.                                          *)
(***************************************************************************)
C8_AcquiredLockReleasedOnce ==
    \A w \in Workers :
        (wk[w].pc = "done" /\ hist[w].src_lock # 0) =>
            Count(hist[w].unlocked, hist[w].src_lock) = 1

(***************************************************************************)
(* C9.  A command that fails parsing (no file path, unknown command name,  *)
(* free text on a read or empty request, free text longer than 50          *)
(* characters) ends its worker with return_value -1 and with no ticket     *)
(* drawn, no lock released and no node created by that worker: a rejected  *)
(* worker has touched nothing, and a worker whose line fails parsing (and  *)
(* was not overwritten while it was parsed) is rejected.                   *)
(***************************************************************************)
NoFilePath(line) == PathOf(line) = NULL
UnknownCommand(line) == CmdOf(line) \notin {S_read, S_write, S_empty}
FreeTextLen(line) == Len(line) - (Len(CmdOf(line)) + Len(PathOf(line)) + 2)
FreeTextNotAllowed(line) == FreeTextLen(line) > 0 /\ CmdOf(line) \in {S_read, S_empty}
FreeTextTooLong(line) == FreeTextLen(line) > MaxTextLen

FailsParsing(line) ==
    \/ NoFilePath(line)
    \/ UnknownCommand(line)
    \/ FreeTextNotAllowed(line)
    \/ FreeTextTooLong(line)

\* the lines of the scripts that fail parsing
FailingLines == { l \in CmdLines : FailsParsing(l) }

Parsed(w) == wk[w].pc \notin {"idle", "strcpy", "parse"}

MasterHolds(path) == FALSE

C10_FileAccessOnlyUnderLock ==
    [][ /\ (accepted' # accepted) => MasterHolds(COMMANDS_FILE)
        /\ \A w \in Workers :
            /\ (wk[w].pc = "write_file" /\ wk'[w].pc # "write_file") => Holds(w, hist[w].src_lock)
            /\ (wk[w].pc = "empty_file" /\ wk'[w].pc # "empty_file") => Holds(w, hist[w].src_lock)
            /\ (wk[w].pc = "rf_io" /\ wk'[w].pc # "rf_io") =>
                   (Holds(w, hist[w].src_lock) /\ Holds(w, hist[w].dst_lock))
      ]_vars

(***************************************************************************)
(* C11.  In detach mode no two workers wait for each other in a cycle when *)
(* one of them is a read or empty request inside read_file (it holds its   *)
(* source lock and acquires the lock of its destination).                  *)
(***************************************************************************)
\* worker w holds open_files_lock between two steps: only where enqueue
\* waits for a file lock
HoldsGuard(w) == wk[w].pc = "enq_file_wait"

\* worker a is blocked in ticket_lock on a lock that worker b holds
WaitsFor(a, b) ==
    /\ Blocked(a)
    /\ IF wk[a].lock = 0 THEN HoldsGuard(b) ELSE Holds(b, wk[a].lock)

InReadFile(w) == wk[w].ctx = "dst" /\ wk[w].pc \in {"enq_lock", "enq_lock_wait", "enq_file_wait"}

C11_NoCyclicWait ==
    Detach =>
        \A a, b \in Spawned :
            (a # b /\ InReadFile(a)) => ~(WaitsFor(a, b) /\ WaitsFor(b, a))

(***************************************************************************)
(* C12.  Requests on different paths are not serialized by the file locks: *)
(* a worker that waits for a file lock waits for the lock of a node of its *)
(* own path (or of a node whose path was freed), so that two workers on    *)
(* different paths can be inside their handlers at the same time.          *)
(***************************************************************************)
C12_FileLockWaitIsForSamePath ==
    \A w \in Workers :
        wk[w].pc = "enq_file_wait" =>
            (nodes[wk[w].lock].path = Target(w) \/ Dangling(wk[w].lock))

\* in detach mode two workers with different paths are both inside their handlers
C12_Witness ==
    /\ Detach
    /\ \E w1, w2 \in Spawned :
          /\ w1 # w2
          /\ InHandler(w1) /\ InHandler(w2)
          /\ wk[w1].file_path # wk[w2].file_path

(***************************************************************************)
(* C13.  In join mode at most one worker thread exists at any time, and    *)
(* the master is in fgets only when every worker created so far has ended. *)
(***************************************************************************)
Exists(w) == wk[w].pc \notin {"idle", "done", "rejected"}

C13_JoinModeOneWorker ==
    join_threads = 1 =>
        /\ Cardinality({ w \in Workers : Exists(w) }) <= 1
        /\ master_pc = "fgets" => \A w \in Workers : ~Exists(w)

\* join mode: the second worker runs its handler, the first one has ended
C13_Witness ==
    /\ join_threads = 1
    /\ nspawned >= 2
    /\ wk[1].pc = "done"
    /\ InHandler(2)

(***************************************************************************)
(* C14.  The statements of enqueue and dequeue that read or write the list *)
(* open_files (the walks, the insertion) are run only by a thread that     *)
(* holds open_files_lock, and at most one thread holds it: its ticket is   *)
(* the one that open_files_lock serves.                                    *)
(***************************************************************************)
\* thread t is between the return of ticket_lock(open_files_lock) and the
\* end of ticket_unlock(open_files_lock)
GuardHeld(t) ==
    th[t].pc \in {"enq_walk", "enq_file_lock", "enq_file_wait", "enq_unlock", "deq_walk", "deq_unlock"}

C14_ListOnlyUnderGuard ==
    /\ Cardinality({ t \in RegistryThreads : GuardHeld(t) }) <= 1
    /\ \A t \in RegistryThreads : GuardHeld(t) => th[t].guard_ticket = locks[0].curr

\* a thread walks a list of one node for its enqueue while a second thread
\* waits for open_files_lock and a third one is between enqueue and dequeue
C14_Witness ==
    /\ open_files # <<>>
    /\ \E t1, t2, t3 \in RegistryThreads :
          /\ th[t1].pc = "enq_walk"
          /\ th[t2].pc \in {"enq_guard_wait", "deq_guard_wait"}
          /\ th[t3].pc = "dequeue"

(***************************************************************************)
(* C15.  When main has destroyed open_files_lock and the locks of the list *)
(* (the master thread has ended), no worker is between its first call of   *)
(* ticket_lock and its last call of ticket_unlock: none holds a lock, is   *)
(* blocked on one or will still call ticket_lock or ticket_unlock.         *)
(***************************************************************************)
UsesLocks(w) == wk[w].pc \notin {"idle", "strcpy", "parse", "done", "rejected"}

C15_NoLockDestroyedInUse ==
    master_pc = "exited" => \A w \in Spawned : ~UsesLocks(w)

(***************************************************************************)
(* C16.  Round trip, commands run one after another (join mode): when      *)
(* "write foo hello" on an absent foo is followed by "read foo" and the    *)
(* read has finished, read.txt holds the command line "read foo", the      *)
(* separator ": ", exactly the bytes written to foo ("hello" and its       *)
(* newline) and a newline, and foo still holds the bytes written.          *)
(***************************************************************************)
WrittenBytes == S_hello \o NL

WriteThenRead ==
    /\ join_threads = 1
    /\ accepted = << WriteFooHello, ReadFoo >>
    /\ wk[2].pc = "done"

C16_RoundTrip ==
    WriteThenRead =>
        /\ files[READ_FILE].data = ReadFoo \o <<":", " ">> \o WrittenBytes \o NL
        /\ files[S_foo] = [exists |-> TRUE, data |-> WrittenBytes]
        /\ wk[2].return_value = 0

\* the write and then the read have both finished
C16_Witness ==
    /\ WriteThenRead
    /\ wk[1].pc = "done"
    /\ files[READ_FILE].exists

(***************************************************************************)
(* C17.  A thread returns from ticket_lock only when curr of the lock is   *)
(* the ticket it drew, whatever wakes it; the tickets drawn on one lock    *)
(* are pairwise distinct; waiting and curr never decrease.                 *)
(***************************************************************************)
C17_ReturnsOnlyWhenServed ==
    [][ /\ \A t \in Threads :
              (th[t].pc # "held" /\ th'[t].pc = "held") =>
                  th'[t].ticket = locks'[TheLock].curr
        /\ \A t1, t2 \in Threads :
              (t1 # t2 /\ th'[t1].pc # "start" /\ th'[t2].pc # "start") =>
                  th'[t1].ticket # th'[t2].ticket
        /\ locks'[TheLock].curr >= locks[TheLock].curr
        /\ locks'[TheLock].waiting >= locks[TheLock].waiting
      ]_vars

\* a thread that had to wait has returned with the ticket that is served,
\* and two more threads, woken by the same broadcast, wait on
C17_Witness ==
    /\ \E t \in Threads :
          /\ th[t].pc = "held" /\ th[t].waited
          /\ th[t].ticket = locks[TheLock].curr
    /\ Cardinality({ t \in Threads : th[t].pc = "wait" }) >= 2

(***************************************************************************)
(* C18.  No wakeup is lost: a thread that waits in ticket_lock with the    *)
(* ticket that curr has reached eventually returns from ticket_lock,       *)
(* however many threads wait on the same condition variable.               *)
(***************************************************************************)
C18_NoLostWakeup ==
    \A t \in Threads :
        (th[t].pc = "wait" /\ th[t].ticket = locks[TheLock].curr) ~> (th[t].pc = "held")

\* ticket_unlock has just served the ticket of a waiting thread, and its
\* broadcast has also woken two threads whose tickets are not served
C18_Witness ==
    /\ \E t \in Threads :
          th[t].pc = "wait" /\ ~th[t].asleep /\ th[t].ticket = locks[TheLock].curr
    /\ Cardinality({ t \in Threads :
                       th[t].pc = "wait" /\ ~th[t].asleep /\ th[t].ticket # locks[TheLock].curr }) >= 2

(***************************************************************************)
(* C19.  ticket_unlock is run on a lock only by the thread that holds it:  *)
(* no worker has advanced a file lock more often than it acquired that     *)
(* lock (none released a lock twice or released the lock of another        *)
(* worker), and curr <= waiting on every lock.                             *)
(***************************************************************************)
C19_UnlockOnlyByHolder ==
    /\ \A l \in DOMAIN locks : locks[l].curr <= locks[l].waiting
    /\ \A w \in Workers : \A l \in 1..Len(nodes) :
          Count(hist[w].unlocked, l) <= Count(hist[w].acquired, l)

(***************************************************************************)
(* C20.  No thread is blocked waiting for the ticket lock of a file while  *)
(* it holds the registry guard open_files_lock.                            *)
(***************************************************************************)
C20_NoFileWaitUnderGuard ==
    \A w \in Workers : ~(HoldsGuard(w) /\ Blocked(w))

(***************************************************************************)
(* C21.  In detach mode every worker parses and executes the command line  *)
(* the master had read when it created that worker: the copy the worker    *)
(* cuts into command name and file path, and the contents of               *)
(* parcel->cmdline it measures and takes the free text from, are the       *)
(* worker's own line.                                                      *)
(***************************************************************************)
C21_WorkerUsesOwnCommand ==
    Detach => \A w \in Workers :
                 Parsed(w) => wk[w].cmdline = accepted[w] /\ wk[w].seen = accepted[w]

(***************************************************************************)
(* C22.  In join mode every worker terminates and leaves no lock held: no  *)
(* worker is ever blocked in ticket_lock (no other thread runs that could  *)
(* release the lock), and once the workers created so far have finished,   *)
(* curr = waiting on open_files_lock and on the lock of every entry        *)
(* reachable from open_files.                                              *)
(***************************************************************************)
Reachable == { open_files[i] : i \in 1..Len(open_files) }

C22_JoinModeLeavesNoHeldLock ==
    join_threads = 1 =>
        /\ \A w \in Workers : ~Blocked(w)
        /\ (\A w \in Spawned : Finished(w)) =>
               \A l \in {0} \cup Reachable : locks[l].curr = locks[l].waiting

(***************************************************************************)
(* C23.  read_file called with a source path equal to its destination     *)
(* path returns -1 without calling enqueue or dequeue on the destination   *)
(* and without touching any file; empty_file is not called; the worker     *)
(* then releases the source lock through dequeue.                          *)
(***************************************************************************)
\* the worker's request reads a file into itself (line 344)
SelfRead(w) ==
    /\ wk[w].request_type \in {REQUEST_READ, REQUEST_EMPTY}
    /\ wk[w].file_path = dest_path(w)

\* every line read so far asks to read a file into itself
OnlySelfReads == \A i \in 1..Len(accepted) : accepted[i] \in {ReadReadTxt, EmptyEmptyTxt}

\* lines 344-347 and 556-558: no second enqueue, no dequeue but the worker's
\* own, no file operation, the result -1
SelfReadSkipsDestination ==
    /\ \A w \in Workers : SelfRead(w) =>
          /\ wk[w].ctx = "src"
          /\ wk[w].pc \notin {"write_file", "rf_io", "empty_file"}
          /\ Len(hist[w].enqueued) <= 1
          /\ Count(hist[w].drawn, 0) <= 2
          /\ HandlerDone(w) => wk[w].return_value = -1
    /\ OnlySelfReads => \A p \in FilePaths \ { COMMANDS_FILE } : files[p] = NoFile

\* line 567: the dequeue of a finished worker has advanced the lock the
\* worker acquired in enqueue(file_path)
SelfReadReleasesSource ==
    \A w \in Workers :
        SelfRead(w) /\ wk[w].pc = "done" => Count(hist[w].unlocked, hist[w].src_lock) = 1

C23_ReadIntoItself == SelfReadSkipsDestination /\ SelfReadReleasesSource

=============================================================================
